---------------------------- MODULE Spec2Model ----------------------------
(***************************************************************************)
(* A model of cargo-sql-fmt (src/src/main.rs): format_file and the         *)
(* formatters it runs over the text of one SQL file.                       *)
(*                                                                         *)
(* A text (Rust &str / String) is a sequence of one-character strings.     *)
(* Every character of the model is ASCII, so a byte offset of the source   *)
(* is an index of the sequence minus one and str::len() is Len.            *)
(***************************************************************************)
EXTENDS Integers, Sequences, FiniteSets, TLC

(***************************************************************************)
(* Character classes of the regex crate, cut to ASCII.                     *)
(***************************************************************************)
UpperCase ==
    <<"A","B","C","D","E","F","G","H","I","J","K","L","M",
      "N","O","P","Q","R","S","T","U","V","W","X","Y","Z">>

LowerCase ==
    <<"a","b","c","d","e","f","g","h","i","j","k","l","m",
      "n","o","p","q","r","s","t","u","v","w","x","y","z">>

Letters == {UpperCase[k] : k \in DOMAIN UpperCase} \cup {LowerCase[k] : k \in DOMAIN LowerCase}

Digits == {"0","1","2","3","4","5","6","7","8","9"}

\* \s
Whitespace == {" ", "\n", "\t", "\r"}

\* \w
WordChars == Letters \cup Digits \cup {"_"}

\* simple case folding, as (?i) applies it to a literal
Fold(c) ==
    IF \E k \in DOMAIN LowerCase : LowerCase[k] = c
    THEN UpperCase[CHOOSE k \in DOMAIN LowerCase : LowerCase[k] = c]
    ELSE c

(***************************************************************************)
(* Text helpers (str methods).                                             *)
(***************************************************************************)
Slice(s, a, b) == IF a > b THEN <<>> ELSE SubSeq(s, a, b)

\* str::starts_with / ends_with / contains for a pattern text
StartsWith(s, p) == Len(s) >= Len(p) /\ SubSeq(s, 1, Len(p)) = p

EndsWith(s, p) == Len(s) >= Len(p) /\ SubSeq(s, Len(s) - Len(p) + 1, Len(s)) = p

Contains(s, p) == \E i \in 1..(Len(s) - Len(p) + 1) : SubSeq(s, i, i + Len(p) - 1) = p

\* str::trim, str::trim_end: the longest slice without leading/trailing whitespace
TrimEnd(s) ==
    LET keep == {i \in 1..Len(s) : s[i] \notin Whitespace}
    IN  IF keep = {} THEN <<>>
        ELSE SubSeq(s, 1, CHOOSE i \in keep : \A j \in keep : j <= i)

Trim(s) ==
    LET keep == {i \in 1..Len(s) : s[i] \notin Whitespace}
    IN  IF keep = {} THEN <<>>
        ELSE SubSeq(s, CHOOSE i \in keep : \A j \in keep : i <= j,
                       CHOOSE i \in keep : \A j \in keep : j <= i)

Spaces(n) == [k \in 1..n |-> " "]

\* format!("{:>width$}", value) and format!("{:<width$}", value)
PadLeft(value, width) ==
    IF Len(value) >= width THEN value ELSE Spaces(width - Len(value)) \o value

PadRight(value, width) ==
    IF Len(value) >= width THEN value ELSE value \o Spaces(width - Len(value))

RECURSIVE Concat(_)
\* [..].concat()
Concat(ss) == IF ss = <<>> THEN <<>> ELSE Head(ss) \o Concat(Tail(ss))

RECURSIVE Join(_, _)
\* [..].join(sep)
Join(ss, sep) ==
    IF ss = <<>> THEN <<>>
    ELSE IF Len(ss) = 1 THEN ss[1]
    ELSE ss[1] \o sep \o Join(Tail(ss), sep)

(***************************************************************************)
(* Regular expressions: the constructs the source's patterns use, matched  *)
(* leftmost-first with backtracking as the regex crate defines it.         *)
(***************************************************************************)
\* a literal text under (?i)
Lit(w) == [t |-> "lit", w |-> w]

\* a repeated character class: [cs]{min,max}, max = -1 for no upper limit
Rep(cs, neg, min, max, greedy) ==
    [t |-> "rep", cs |-> cs, neg |-> neg, min |-> min, max |-> max, greedy |-> greedy]

Star(cs) == Rep(cs, FALSE, 0, -1, TRUE)

Plus(cs) == Rep(cs, FALSE, 1, -1, TRUE)

NotPlus(cs) == Rep(cs, TRUE, 1, -1, TRUE)

One(cs) == Rep(cs, FALSE, 1, 1, TRUE)

Maybe(cs) == Rep(cs, FALSE, 0, 1, TRUE)

\* .+? under (?s): . is any character
DotPlusLazy == Rep({}, TRUE, 1, -1, FALSE)

Cat(xs) == [t |-> "cat", xs |-> xs]

Alt(a, b) == [t |-> "alt", a |-> a, b |-> b]

\* (?: x )?
Opt(x) == Alt(x, Cat(<<>>))

\* capture group n
Grp(n, x) == [t |-> "grp", n |-> n, x |-> x]

\* $ and ^ without (?m): the end and the start of the text
Eot == [t |-> "eot"]

Bot == [t |-> "bot"]

NoMatch == [ok |-> FALSE]

LitAt(w, s, i) ==
    /\ i + Len(w) - 1 <= Len(s)
    /\ \A k \in 1..Len(w) : Fold(s[i + k - 1]) = Fold(w[k])

\* how many characters from s[i] on are in the class, up to max
RunLen(h, s, i) ==
    LET stop == {j \in i..Len(s) : (s[j] \in h.cs) = h.neg}
        run  == IF stop = {} THEN Len(s) + 1 - i
                ELSE (CHOOSE j \in stop : \A k \in stop : j <= k) - i
    IN  IF h.max >= 0 /\ run > h.max THEN h.max ELSE run

RECURSIVE Match(_, _, _, _), MatchRep(_, _, _, _, _, _, _)
\* Match the patterns of k one after another from s[i] on; caps are the
\* capture groups so far, <<start, end>> with end exclusive, <<0, 0>> = None.
Match(k, s, i, caps) ==
    IF Len(k) = 0 THEN [ok |-> TRUE, end |-> i, caps |-> caps]
    ELSE
    LET h == Head(k)
        r == Tail(k)
    IN  CASE h.t = "lit" ->
                IF LitAt(h.w, s, i) THEN Match(r, s, i + Len(h.w), caps) ELSE NoMatch
          [] h.t = "rep" -> MatchRep(h, r, s, i, caps, RunLen(h, s, i), 0)
          [] h.t = "cat" -> Match(h.xs \o r, s, i, caps)
          [] h.t = "alt" ->
                LET first == Match(<<h.a>> \o r, s, i, caps)
                IN  IF first.ok THEN first ELSE Match(<<h.b>> \o r, s, i, caps)
          [] h.t = "grp" ->
                Match(<<[t |-> "gs", n |-> h.n], h.x, [t |-> "ge", n |-> h.n]>> \o r,
                      s, i, caps)
          [] h.t = "gs" -> Match(r, s, i, [caps EXCEPT ![h.n] = <<i, i>>])
          [] h.t = "ge" -> Match(r, s, i, [caps EXCEPT ![h.n] = <<@[1], i>>])
          [] h.t = "eot" -> IF i = Len(s) + 1 THEN Match(r, s, i, caps) ELSE NoMatch
          [] h.t = "bot" -> IF i = 1 THEN Match(r, s, i, caps) ELSE NoMatch

\* The repetition h, with n characters of its class at hand, followed by r:
\* the d-th length tried is the d-th longest when greedy, the d-th shortest
\* when lazy; the first length after which r matches is the match.
MatchRep(h, r, s, i, caps, n, d) ==
    IF d > n - h.min THEN NoMatch
    ELSE LET m == Match(r, s, i + (IF h.greedy THEN n - d ELSE h.min + d), caps)
         IN  IF m.ok THEN m ELSE MatchRep(h, r, s, i, caps, n, d + 1)

\* the pattern matched from s[i] on
MatchAt(re, ngroups, s, i) == Match(<<re>>, s, i, [g \in 1..ngroups |-> <<0, 0>>])

MinOf(S) == CHOOSE x \in S : \A y \in S : x <= y

MaxOf(S) == IF S = {} THEN 0 ELSE CHOOSE x \in S : \A y \in S : y <= x

\* the match m, which starts at index start
Hit(start, m) == [ok |-> TRUE, start |-> start, end |-> m.end, caps |-> m.caps]

\* the match that starts at one of `starts`, the leftmost of them
Leftmost(re, ngroups, s, starts) ==
    IF starts = {} THEN NoMatch
    ELSE Hit(MinOf(starts), MatchAt(re, ngroups, s, MinOf(starts)))

\* Regex::find / Regex::captures from position `from`: the leftmost match,
\* as [ok, start, end, caps]; start is the first index, end the one after.
Find(re, ngroups, s, from) ==
    Leftmost(re, ngroups, s, {i \in from..(Len(s) + 1) : MatchAt(re, ngroups, s, i).ok})

RECURSIVE FindAll(_, _, _, _), FindMore(_, _, _, _)
\* Regex::captures_iter / find_iter: successive non-overlapping matches
\* (no pattern of the source matches the empty text)
FindAll(re, ngroups, s, from) == FindMore(re, ngroups, s, Find(re, ngroups, s, from))

\* the match m, when there is one, and the matches after it
FindMore(re, ngroups, s, m) ==
    IF ~m.ok THEN <<>>
    ELSE <<m>> \o FindAll(re, ngroups, s, IF m.end > m.start THEN m.end ELSE m.end + 1)

\* Match::as_str of capture group g, "" for a group that did not take part
Group(s, m, g) == Slice(s, m.caps[g][1], m.caps[g][2] - 1)

\* Regex::is_match of the whole text (^...$)
FullMatch(re, s) == Match(<<Bot, re, Eot>>, s, 1, <<>>).ok

\* the texts before, between and after the matches ms
Between(s, ms) ==
    [k \in 1..(Len(ms) + 1) |->
        Slice(s, IF k = 1 THEN 1 ELSE ms[k - 1].end,
                 IF k = Len(ms) + 1 THEN Len(s) ELSE ms[k].start - 1)]

\* Regex::split
RegexSplit(re, s) == Between(s, FindAll(re, 0, s, 1))

(***************************************************************************)
(* value.parse::<f64>() and value.parse::<i64>() succeed (is_ok).          *)
(***************************************************************************)
\* core::num::dec2flt: [+-]? (inf | infinity | nan | digits with an optional
\* point and at least one digit, then an optional exponent)
f64_syntax ==
    Cat(<<Maybe({"+", "-"}),
          Alt(Alt(Lit(<<"i","n","f","i","n","i","t","y">> (* infinity *)), Lit(<<"i","n","f">>)),
              Alt(Lit(<<"n","a","n">>),
                  Cat(<<Alt(Cat(<<Plus(Digits), Opt(Cat(<<Lit(<<".">>), Star(Digits)>>))>>),
                            Cat(<<Lit(<<".">>), Plus(Digits)>>)),
                        Opt(Cat(<<One({"e", "E"}), Maybe({"+", "-"}), Plus(Digits)>>))>>)))>>)

ParsesF64(value) == FullMatch(f64_syntax, value)

\* core::num from_str_radix: [+-]? digits, and the number fits 64 bits; up to
\* 18 digits always fit (the model's values are far shorter)
i64_syntax == Cat(<<Maybe({"+", "-"}), Plus(Digits)>>)

ParsesI64(value) == FullMatch(i64_syntax, value) /\ Len(value) <= 18

(***************************************************************************)
(* format_insert_statement (main.rs 225-378)                               *)
(***************************************************************************)
\* line 229: r"\)\s*,\s*\("
row_regex == Cat(<<Lit(<<")">>), Star(Whitespace), Lit(<<",">>), Star(Whitespace), Lit(<<"(">>)>>)

\* lines 237-241
RowsText(values_section) ==
    IF Contains(values_section, <<")",",">>)
    THEN <<"(">> \o values_section \o <<")">>
    ELSE <<"(">> \o values_section

\* lines 249-251
DropClosing(row) == IF EndsWith(row, <<")">>) THEN Slice(row, 1, Len(row) - 1) ELSE row

\* lines 252-254
DropOpening(row) == IF StartsWith(row, <<"(">>) THEN Slice(row, 2, Len(row)) ELSE row

\* lines 248-254: trim, then drop one closing and one opening parenthesis
CleanRow(row) == DropOpening(DropClosing(Trim(row)))

\* lines 247-255
CleanRows(rows) == [k \in 1..Len(rows) |-> CleanRow(rows[k])]

\* lines 237-255
Rows(values_section) == CleanRows(RegexSplit(row_regex, RowsText(values_section)))

\* lines 263-267: the scanner's state at the start of a row
ScanStart ==
    [values |-> <<>>, current_value |-> <<>>, in_quote |-> FALSE,
     in_function |-> 0, escaped |-> FALSE]

\* lines 270-309: one character of the row
ScanChar(st, c) ==
    CASE c = "\\" ->
            [st EXCEPT !.current_value = @ \o <<c>>, !.escaped = TRUE]
      [] c = "'" ->
            [st EXCEPT !.current_value = @ \o <<c>>,
                       !.in_quote = IF st.escaped THEN @ ELSE ~@,
                       !.escaped = FALSE]
      [] c = "(" ->
            [st EXCEPT !.current_value = @ \o <<c>>,
                       !.in_function = IF st.in_quote THEN @ ELSE @ + 1,
                       !.escaped = FALSE]
      [] c = ")" ->
            [st EXCEPT !.current_value = @ \o <<c>>,
                       !.in_function = IF ~st.in_quote /\ @ > 0 THEN @ - 1 ELSE @,
                       !.escaped = FALSE]
      [] c = "," ->
            IF st.in_quote \/ st.in_function > 0
            THEN [st EXCEPT !.current_value = @ \o <<c>>, !.escaped = FALSE]
            ELSE [st EXCEPT !.values = Append(@, Trim(st.current_value)),
                            !.current_value = <<>>,
                            !.escaped = FALSE]
      [] OTHER ->
            [st EXCEPT !.current_value = @ \o <<c>>, !.escaped = FALSE]

RECURSIVE ScanRow(_, _, _)
\* lines 269-310: the loop over row.chars(), from character i on
ScanRow(row, i, st) ==
    IF i > Len(row) THEN st ELSE ScanRow(row, i + 1, ScanChar(st, row[i]))

\* lines 312-314: the last value of the row
LastValue(st) ==
    IF st.current_value # <<>>
    THEN Append(st.values, Trim(st.current_value))
    ELSE st.values

\* lines 263-317: the values of one row
ParseRow(row) == LastValue(ScanRow(row, 1, ScanStart))

\* lines 258-318
ParseRows(rows) == [k \in 1..Len(rows) |-> ParseRow(rows[k])]

\* lines 237-318
ValuesPerRow(values_section) == ParseRows(Rows(values_section))

\* line 321
ColumnCount(values_per_row) ==
    MaxOf({Len(values_per_row[k]) : k \in DOMAIN values_per_row})

\* lines 324-332
ColumnWidths(values_per_row) ==
    [i \in 1..ColumnCount(values_per_row) |->
        MaxOf({Len(values_per_row[k][i]) :
                 k \in {k \in DOMAIN values_per_row : i <= Len(values_per_row[k])}})]

\* lines 348-351
RightAligned(value) ==
    \/ StartsWith(value, <<"P","O","I","N","T","(">> (* POINT( *))
    \/ (ParsesF64(value) /\ ~StartsWith(value, <<"'">>))
    \/ ParsesI64(value)
    \/ value = <<"0">>
    \/ value = <<"1">>

\* lines 348-355
FormatValue(value, width) ==
    IF RightAligned(value) THEN PadLeft(value, width) ELSE PadRight(value, width)

\* lines 340-358
FormatRow(row, column_widths) ==
    <<"(">>
    \o Join([i \in 1..Len(row) |-> FormatValue(row[i], column_widths[i])], <<","," ">>)
    \o <<")",",">>

\* lines 339-362
FormatRows(values_per_row, column_widths) ==
    [k \in 1..Len(values_per_row) |-> FormatRow(values_per_row[k], column_widths)]

\* lines 320-362
FormattedRows(values_per_row) == FormatRows(values_per_row, ColumnWidths(values_per_row))

\* lines 371-374
FixLastRow(result) ==
    IF EndsWith(result, <<",">>)
    THEN Slice(result, 1, Len(result) - 1) \o <<";">>
    ELSE result

\* lines 225-378 (Regex::new of a constant pattern does not fail)
format_insert_statement(header, values_section) ==
    FixLastRow(header
               \o <<"\n","V","A","L","U","E","S","\n">> (* \nVALUES\n *)
               \o Join(FormattedRows(ValuesPerRow(values_section)), <<"\n">>))

(***************************************************************************)
(* format_sql_inserts (main.rs 183-223)                                    *)
(***************************************************************************)
\* the pattern of line 187 with the column list made optional
insert_regex_any_header ==
    Cat(<<Grp(1, Cat(<<Lit(<<"I","N","S","E","R","T">> (* INSERT *)), Plus(Whitespace),
                       Lit(<<"I","N","T","O">> (* INTO *)), Plus(Whitespace),
                       Plus(WordChars), Opt(Cat(<<Lit(<<".">>), Plus(WordChars)>>)),
                       Opt(Cat(<<Star(Whitespace),
                                 Lit(<<"(">>), NotPlus({")"}), Lit(<<")">>)>>))>>)),
          Star(Whitespace), Lit(<<"V","A","L","U","E","S">> (* VALUES *)),
          Star(Whitespace), Maybe({"\n"}), Star(Whitespace),
          Lit(<<"(">>), Grp(2, NotPlus({";"})), Alt(Lit(<<";">>), Eot)>>)

\* line 187:
\* (?is)(INSERT\s+INTO\s+\w+(?:\.\w+)?\s*\([^)]+\))\s*VALUES\s*\n?\s*\(([^;]+)(?:;|$)
insert_regex ==
    Cat(<<Grp(1, Cat(<<Lit(<<"I","N","S","E","R","T">> (* INSERT *)), Plus(Whitespace),
                       Lit(<<"I","N","T","O">> (* INTO *)), Plus(Whitespace),
                       Plus(WordChars), Opt(Cat(<<Lit(<<".">>), Plus(WordChars)>>)),
                       Star(Whitespace),
                       Lit(<<"(">>), NotPlus({")"}), Lit(<<")">>)>>)),
          Star(Whitespace), Lit(<<"V","A","L","U","E","S">> (* VALUES *)),
          Star(Whitespace), Maybe({"\n"}), Star(Whitespace),
          Lit(<<"(">>), Grp(2, NotPlus({";"})), Alt(Lit(<<";">>), Eot)>>)

\* line 198
InsertMatches(sql) == FindAll(insert_regex, 2, sql, 1)

\* lines 206-210
FormattedInsert(sql, m) == format_insert_statement(Group(sql, m, 1), Group(sql, m, 2))

\* the formatted text of every match
FormattedInserts(sql, ms) == [k \in 1..Len(ms) |-> FormattedInsert(sql, ms[k])]

(***************************************************************************)
(* The splice loop every format_sql_* function runs over its matches       *)
(* (main.rs 195-222, 393-421, 535-577, 676-710, 784-821).                  *)
(*                                                                         *)
(* offset is a usize.  The model keeps, for a usize, the integer of least  *)
(* magnitude congruent to it modulo 2^64: a wrapped difference             *)
(* formatted.len() - match_len is the negative integer itself, and a       *)
(* wrapping sum is the sum.  With overflow checks (a debug build) the      *)
(* subtraction of a larger from a smaller usize panics; without (a release *)
(* build) it wraps.                                                        *)
(***************************************************************************)
\* String::replace_range(a..b, text), a and b byte offsets
ReplaceRange(result, a, b, text) ==
    SubSeq(result, 1, a) \o text \o SubSeq(result, b + 1, Len(result))

Panicked == [panic |-> TRUE, text |-> <<>>]

Returned(text) == [panic |-> FALSE, text |-> text]

\* formatted.len() - match_len overflows
SubOverflows(formatted_len, match_len) == formatted_len < match_len

RECURSIVE SpliceFrom(_, _, _, _, _, _), SpliceOne(_, _, _, _, _, _, _, _)
\* the loop over the matches from match k on; replacement[k] is the formatted
\* text of match k
SpliceFrom(ms, replacement, k, result, offset, overflow_checks) ==
    IF k > Len(ms) THEN Returned(result)
    ELSE SpliceOne(ms, replacement, k, result, offset, overflow_checks,
                   ms[k], replacement[k])

\* the loop body for the match m, to be replaced by formatted_text
SpliceOne(ms, replacement, k, result, offset, overflow_checks, m, formatted_text) ==
    IF overflow_checks /\ SubOverflows(Len(formatted_text), m.end - m.start)
    THEN Panicked
    ELSE SpliceFrom(ms, replacement, k + 1,
                    ReplaceRange(result, (m.start - 1) + offset, (m.end - 1) + offset,
                                 formatted_text),
                    offset + (Len(formatted_text) - (m.end - m.start)),
                    overflow_checks)

\* let mut result = String::from(sql); let mut offset = 0; for captures in ... ; result
Splice(sql, ms, replacement, overflow_checks) ==
    SpliceFrom(ms, replacement, 1, sql, 0, overflow_checks)

\* lines 195-222
SpliceInserts(sql, ms, overflow_checks) ==
    Splice(sql, ms, FormattedInserts(sql, ms), overflow_checks)

\* lines 183-223
format_sql_inserts(sql, overflow_checks) ==
    SpliceInserts(sql, InsertMatches(sql), overflow_checks)

(***************************************************************************)
(* str::split(char), str::splitn(2, char), str::find(char)                 *)
(***************************************************************************)
\* the k-th smallest element of a set of integers
Kth(S, k) == CHOOSE i \in S : Cardinality({j \in S : j < i}) = k - 1

\* the texts before, between and after the positions `at`
Pieces(s, at) ==
    [k \in 1..(Cardinality(at) + 1) |->
        Slice(s, IF k = 1 THEN 1 ELSE Kth(at, k - 1) + 1,
                 IF k = Cardinality(at) + 1 THEN Len(s) ELSE Kth(at, k) - 1)]

SplitChar(s, c) == Pieces(s, {i \in 1..Len(s) : s[i] = c})

\* the index of the first c in s, 0 when there is none
FindChar(s, c) ==
    IF \E i \in 1..Len(s) : s[i] = c
    THEN MinOf({i \in 1..Len(s) : s[i] = c})
    ELSE 0

\* s cut at index i, which is dropped; s itself when i = 0
CutAt(s, i) == IF i = 0 THEN <<s>> ELSE <<Slice(s, 1, i - 1), Slice(s, i + 1, Len(s))>>

SplitN2(s, c) == CutAt(s, FindChar(s, c))

TrimAll(ss) == [k \in 1..Len(ss) |-> Trim(ss[k])]

NonEmpty(x) == x # <<>>

(***************************************************************************)
(* format_sql_creates, format_create_statement (main.rs 380-521)           *)
(***************************************************************************)
\* line 385: (?is)(CREATE\s+TABLE\s+(?:IF\s+NOT\s+EXISTS\s+)?[^\s(]+\s*\()([^;]+)(\);)
create_regex ==
    Cat(<<Grp(1, Cat(<<Lit(<<"C","R","E","A","T","E">> (* CREATE *)), Plus(Whitespace), Lit(<<"T","A","B","L","E">> (* TABLE *)), Plus(Whitespace),
                       Opt(Cat(<<Lit(<<"I","F">>), Plus(Whitespace), Lit(<<"N","O","T">>), Plus(Whitespace),
                                 Lit(<<"E","X","I","S","T","S">> (* EXISTS *)), Plus(Whitespace)>>)),
                       NotPlus(Whitespace \cup {"("}), Star(Whitespace), Lit(<<"(">>)>>)),
          Grp(2, NotPlus({";"})),
          Grp(3, Lit(<<")",";">>))>>)

\* line 441: ^([A-Za-z0-9_]+(?:\s*\([^)]+\))?)(.*)$   (. is any character but \n)
type_regex ==
    Cat(<<Bot,
          Grp(1, Cat(<<Plus(WordChars),
                       Opt(Cat(<<Star(Whitespace), Lit(<<"(">>), NotPlus({")"}), Lit(<<")">>)>>))>>)),
          Grp(2, Rep({"\n"}, TRUE, 0, -1, TRUE)),
          Eot>>)

\* lines 450-466: the type and the constraints of `rest`
TypedParts(name, rest, type_caps) ==
    IF type_caps.ok
    THEN <<name, Trim(Group(rest, type_caps, 1)), Trim(Group(rest, type_caps, 2))>>
    ELSE <<name, rest, <<>>>>

\* lines 435-474
SplitParts(line, parts) ==
    IF Len(parts) >= 2
    THEN TypedParts(Trim(parts[1]), Trim(parts[2]), Find(type_regex, 2, Trim(parts[2]), 1))
    ELSE <<line, <<>>, <<>>>>

\* lines 434-474: <<name, type, constraints>> of one column definition
ColumnParts(line) == SplitParts(line, SplitN2(line, " "))

PRIMARY_KEY == <<"P","R","I","M","A","R","Y"," ","K","E","Y">> (* PRIMARY KEY *)

FOREIGN_KEY == <<"F","O","R","E","I","G","N"," ","K","E","Y">> (* FOREIGN KEY *)

CONSTRAINT_KW == <<"C","O","N","S","T","R","A","I","N","T">> (* CONSTRAINT *)

\* lines 493-509
FormatColumn(parts, name_width, type_width) ==
    IF \/ StartsWith(parts[1], PRIMARY_KEY)
       \/ StartsWith(parts[1], FOREIGN_KEY)
       \/ StartsWith(parts[1], CONSTRAINT_KW)
    THEN <<" "," ">> \o parts[1]
    ELSE TrimEnd(<<" "," ">> \o PadRight(parts[1], name_width) \o <<" ">>
                 \o PadRight(parts[2], type_width) \o <<" ">> \o parts[3])

\* line 482: the column definitions that count for the widths
Sized(column_parts) ==
    {k \in 1..Len(column_parts) :
        /\ ~StartsWith(column_parts[k][1], PRIMARY_KEY)
        /\ ~StartsWith(column_parts[k][1], FOREIGN_KEY)}

\* lines 478-486: the width of part p (1 the name, 2 the type)
PartWidth(column_parts, p) ==
    MaxOf({Len(column_parts[k][p]) : k \in Sized(column_parts)})

\* lines 491-512
FormatColumns(column_parts) ==
    [k \in 1..Len(column_parts) |->
        FormatColumn(column_parts[k], PartWidth(column_parts, 1), PartWidth(column_parts, 2))]

\* lines 432-475
AllColumnParts(col_lines) == [k \in 1..Len(col_lines) |-> ColumnParts(col_lines[k])]

\* line 428
ColLines(columns_section) ==
    SelectSeq(TrimAll(SplitChar(columns_section, ",")), NonEmpty)

\* lines 424-521
format_create_statement(header, columns_section, footer) ==
    header \o <<"\n">>
    \o Join(FormatColumns(AllColumnParts(ColLines(columns_section))), <<",","\n">>)
    \o <<"\n">> \o footer

\* lines 396-419
SpliceCreates(sql, ms, overflow_checks) ==
    Splice(sql, ms,
           [k \in 1..Len(ms) |->
               format_create_statement(Group(sql, ms[k], 1), Group(sql, ms[k], 2),
                                       Group(sql, ms[k], 3))],
           overflow_checks)

\* lines 381-422
format_sql_creates(sql, overflow_checks) ==
    SpliceCreates(sql, FindAll(create_regex, 3, sql, 1), overflow_checks)

(***************************************************************************)
(* format_sql_selects, format_select_statement (main.rs 523-662)           *)
(***************************************************************************)
\* (?:(?:\s+KEYWORD\s+)(.+?))?
OptClause(kw, g) == Opt(Cat(<<Plus(Whitespace), kw, Plus(Whitespace), Grp(g, DotPlusLazy)>>))

\* (?:(?:\s+KEYWORD\s+)(\d+))?
OptNumber(kw, g) == Opt(Cat(<<Plus(Whitespace), kw, Plus(Whitespace), Grp(g, Plus(Digits))>>))

\* (\s*;|\s*$)
Terminator(g) ==
    Grp(g, Alt(Cat(<<Star(Whitespace), Lit(<<";">>)>>), Cat(<<Star(Whitespace), Eot>>)))

\* line 527:
\* (?is)(SELECT\s+)(.+?)(\s+FROM\s+)(.+?)(?:(?:\s+WHERE\s+)(.+?))?
\* (?:(?:\s+GROUP\s+BY\s+)(.+?))?(?:(?:\s+HAVING\s+)(.+?))?(?:(?:\s+ORDER\s+BY\s+)(.+?))?
\* (?:(?:\s+LIMIT\s+)(\d+))?(?:(?:\s+OFFSET\s+)(\d+))?(\s*;|\s*$)
select_regex ==
    Cat(<<Grp(1, Cat(<<Lit(<<"S","E","L","E","C","T">> (* SELECT *)), Plus(Whitespace)>>)),
          Grp(2, DotPlusLazy),
          Grp(3, Cat(<<Plus(Whitespace), Lit(<<"F","R","O","M">> (* FROM *)), Plus(Whitespace)>>)),
          Grp(4, DotPlusLazy),
          OptClause(Lit(<<"W","H","E","R","E">> (* WHERE *)), 5),
          OptClause(Cat(<<Lit(<<"G","R","O","U","P">> (* GROUP *)), Plus(Whitespace), Lit(<<"B","Y">>)>>), 6),
          OptClause(Lit(<<"H","A","V","I","N","G">> (* HAVING *)), 7),
          OptClause(Cat(<<Lit(<<"O","R","D","E","R">> (* ORDER *)), Plus(Whitespace), Lit(<<"B","Y">>)>>), 8),
          OptNumber(Lit(<<"L","I","M","I","T">> (* LIMIT *)), 9),
          OptNumber(Lit(<<"O","F","F","S","E","T">> (* OFFSET *)), 10),
          Terminator(11)>>)

\* "\nKEYWORD " + clause when the clause is not empty (lines 628-655)
ClauseLine(keyword, clause) ==
    IF clause # <<>> THEN <<"\n">> \o keyword \o <<" ">> \o clause ELSE <<>>

\* lines 610-614, 620-624: a list of several lines starts on a line of its own
OwnLine(joined, indent) ==
    IF Contains(joined, <<"\n">>) THEN <<"\n">> \o indent \o joined ELSE joined

\* lines 596-625: the list on one line, or each item on a line of its own
ListLayout(list, indent) ==
    OwnLine(Join(TrimAll(SplitChar(list, ",")), <<",","\n">> \o indent), indent)

\* lines 580-662
format_select_statement(select_keyword, columns, from_keyword, tables, where_clause,
                        group_by, having, order_by, limit, offset_val, terminator) ==
    select_keyword \o ListLayout(columns, Spaces(7))
    \o from_keyword \o ListLayout(tables, Spaces(5))
    \o ClauseLine(<<"W","H","E","R","E">> (* WHERE *), where_clause)
    \o ClauseLine(<<"G","R","O","U","P"," ","B","Y">> (* GROUP BY *), group_by)
    \o ClauseLine(<<"H","A","V","I","N","G">> (* HAVING *), having)
    \o ClauseLine(<<"O","R","D","E","R"," ","B","Y">> (* ORDER BY *), order_by)
    \o ClauseLine(<<"L","I","M","I","T">> (* LIMIT *), limit)
    \o ClauseLine(<<"O","F","F","S","E","T">> (* OFFSET *), offset_val)
    \o terminator

\* lines 547-565
FormattedSelect(sql, m) ==
    format_select_statement(Group(sql, m, 1), Group(sql, m, 2), Group(sql, m, 3),
                            Group(sql, m, 4), Group(sql, m, 5), Group(sql, m, 6),
                            Group(sql, m, 7), Group(sql, m, 8), Group(sql, m, 9),
                            Group(sql, m, 10), Group(sql, m, 11))

\* lines 538-575
SpliceSelects(sql, ms, overflow_checks) ==
    Splice(sql, ms, [k \in 1..Len(ms) |-> FormattedSelect(sql, ms[k])], overflow_checks)

\* lines 524-578
format_sql_selects(sql, overflow_checks) ==
    SpliceSelects(sql, FindAll(select_regex, 11, sql, 1), overflow_checks)

(***************************************************************************)
(* format_sql_updates, format_update_statement (main.rs 664-770)           *)
(***************************************************************************)
\* line 668: (?is)(UPDATE\s+)(.+?)(\s+SET\s+)(.+?)(?:(?:\s+WHERE\s+)(.+?))?(\s*;|\s*$)
update_regex ==
    Cat(<<Grp(1, Cat(<<Lit(<<"U","P","D","A","T","E">> (* UPDATE *)), Plus(Whitespace)>>)),
          Grp(2, DotPlusLazy),
          Grp(3, Cat(<<Plus(Whitespace), Lit(<<"S","E","T">>), Plus(Whitespace)>>)),
          Grp(4, DotPlusLazy),
          OptClause(Lit(<<"W","H","E","R","E">> (* WHERE *)), 5),
          Terminator(6)>>)

\* lines 741-746: a SET clause whose '=' is at index eq (0: it has none)
PadSetClause(clause, eq, max_col_len) ==
    IF eq = 0 THEN clause
    ELSE PadRight(Slice(clause, 1, eq - 1), max_col_len) \o Slice(clause, eq, Len(clause))

\* lines 729-734: the largest byte offset of a clause's first '='
MaxColLen(set_list) ==
    MaxOf({FindChar(set_list[k], "=") - 1 :
             k \in {k \in 1..Len(set_list) : FindChar(set_list[k], "=") > 0}})

\* lines 739-749
FormatSetClauses(set_list) ==
    [k \in 1..Len(set_list) |->
        PadSetClause(set_list[k], FindChar(set_list[k], "="), MaxColLen(set_list))]

\* lines 754-758
SetLayout(formatted_set_clauses) ==
    IF Len(formatted_set_clauses) > 1
    THEN <<"\n"," "," ">> \o Join(formatted_set_clauses, <<",","\n"," "," ">>)
    ELSE formatted_set_clauses[1]

\* lines 713-770
format_update_statement(update_keyword, table, set_keyword, set_clauses, where_clause,
                        terminator) ==
    update_keyword \o table \o set_keyword
    \o SetLayout(FormatSetClauses(TrimAll(SplitChar(set_clauses, ","))))
    \o ClauseLine(<<"W","H","E","R","E">> (* WHERE *), where_clause)
    \o terminator

\* lines 688-698
FormattedUpdate(sql, m) ==
    format_update_statement(Group(sql, m, 1), Group(sql, m, 2), Group(sql, m, 3),
                            Group(sql, m, 4), Group(sql, m, 5), Group(sql, m, 6))

\* lines 679-708
SpliceUpdates(sql, ms, overflow_checks) ==
    Splice(sql, ms, [k \in 1..Len(ms) |-> FormattedUpdate(sql, ms[k])], overflow_checks)

\* lines 665-711
format_sql_updates(sql, overflow_checks) ==
    SpliceUpdates(sql, FindAll(update_regex, 6, sql, 1), overflow_checks)

(***************************************************************************)
(* format_sql_deletes (main.rs 772-822)                                    *)
(***************************************************************************)
\* line 776: (?is)(DELETE\s+FROM\s+)(.+?)(?:(?:\s+WHERE\s+)(.+?))?(\s*;|\s*$)
delete_regex ==
    Cat(<<Grp(1, Cat(<<Lit(<<"D","E","L","E","T","E">> (* DELETE *)), Plus(Whitespace), Lit(<<"F","R","O","M">> (* FROM *)), Plus(Whitespace)>>)),
          Grp(2, DotPlusLazy),
          OptClause(Lit(<<"W","H","E","R","E">> (* WHERE *)), 3),
          Terminator(4)>>)

\* lines 802-809
FormattedDelete(delete_from, table, where_clause, terminator) ==
    delete_from \o table
    \o (IF where_clause # <<>> THEN <<"\n","W","H","E","R","E"," ">> (* \nWHERE  *) ELSE <<>>)
    \o where_clause \o terminator

\* lines 787-819
SpliceDeletes(sql, ms, overflow_checks) ==
    Splice(sql, ms,
           [k \in 1..Len(ms) |->
               FormattedDelete(Group(sql, ms[k], 1), Group(sql, ms[k], 2),
                               Group(sql, ms[k], 3), Group(sql, ms[k], 4))],
           overflow_checks)

\* lines 773-822
format_sql_deletes(sql, overflow_checks) ==
    SpliceDeletes(sql, FindAll(delete_regex, 4, sql, 1), overflow_checks)

(***************************************************************************)
(* format_with_error_handling (main.rs 171-180): catch_unwind turns a      *)
(* panic of the formatter into the text it was given.                      *)
(***************************************************************************)
\* the formatter's text taken whether it panicked or not
format_without_error_handling(outcome, content) == outcome.text

format_with_error_handling(outcome, content) ==
    IF outcome.panic THEN content ELSE outcome.text

(***************************************************************************)
(* The files the model formats.  A file is written as a sequence of items, *)
(* each an INSERT statement laid out from its rows of values or a piece of *)
(* other text; `input` records the items, `file` is their text.            *)
(***************************************************************************)
\* most values written in one statement, most items in one file
MaxCells == 3

MaxItems == 3

HEADER == <<"I","N","S","E","R","T"," ","I","N","T","O"," ","t"," ","(","a",",","b",")">> (* INSERT INTO t (a,b) *)

VALUES_KW == <<"V","A","L","U","E","S">> (* VALUES *)

\* the values a row is written from: numbers, a string with commas in it,
\* a function call with a comma in it, a string with parentheses around its
\* comma, a string that is never closed
NeverClosed == <<"'","x">>

Values == {<<"1">>, <<"2","2">>, <<"'","a",",","b",",","c","'">> (* 'a,b,c' *), <<"f","(","1",",","2",")">> (* f(1,2) *), <<"'",")",",","(","'">>, NeverClosed}

\* how a statement is laid out: the text between header and VALUES, between
\* VALUES and the first row, between rows, between values, and at the end
Layout(gap1, gap2, rowsep, colsep, term) ==
    [gap1 |-> gap1, gap2 |-> gap2, rowsep |-> rowsep, colsep |-> colsep, term |-> term]

\* on one line
Compact == Layout(<<" ">>, <<" ">>, <<")",",","(">>, <<",">>, <<";">>)

\* as format_insert_statement lays a statement out
Canonical == Layout(<<"\n">>, <<"\n">>, <<")",",","\n","(">>, <<","," ">>, <<";">>)

\* a space before the comma between rows
SpacedRows == Layout(<<" ">>, <<" ">>, <<")"," ",",","(">>, <<",">>, <<";">>)

\* wide gaps: the formatted statement is shorter than the written one
Wide == Layout(<<" "," "," "," ">>, <<" "," "," "," ">>, <<")"," ",","," ","(">>, <<" ",","," ">>, <<";">>)

\* the statement ends the file without a semicolon
Unterminated == Layout(<<" ">>, <<" ">>, <<")",",","(">>, <<",">>, <<>>)

\* the clause ends with a comma, as one of a batch, and then the file ends
TrailingComma == Layout(<<" ">>, <<" ">>, <<")",",","(">>, <<",">>, <<",">>)

\* the layouts of a statement that ends with a semicolon
Layouts == {Compact, SpacedRows, Wide}

\* the layouts of a statement that ends the file without one
OpenLayouts == {Unterminated, TrailingComma}

ClauseText(rows, layout) ==
    Join([k \in 1..Len(rows) |-> Join(rows[k], layout.colsep)], layout.rowsep)

\* INSERT INTO t (a,b) VALUES (v, ...), (v, ...);
StatementText(rows, layout) ==
    HEADER \o layout.gap1 \o VALUES_KW \o layout.gap2
    \o <<"(">> \o ClauseText(rows, layout) \o <<")">> \o layout.term

RowsOfLen(c) == [1..c -> Values]

RECURSIVE Tables(_)
\* the non-empty sequences of non-empty rows with at most n values in all
Tables(n) ==
    IF n = 0 THEN {}
    ELSE UNION {{<<row>> : row \in RowsOfLen(c)}
                \cup {<<row>> \o t : row \in RowsOfLen(c), t \in Tables(n - c)} :
                c \in 1..n}

Statement(rows, layout) ==
    [stmt |-> TRUE, rows |-> rows, layout |-> layout, text |-> StatementText(rows, layout)]

Other(text) ==
    [stmt |-> FALSE, rows |-> <<>>, layout |-> Compact, text |-> text]

\* one statement: every table of values in every layout that ends with a
\* semicolon, the tables of one value less in those that do not
Singles ==
    {<<Statement(rows, layout)>> : rows \in Tables(MaxCells), layout \in Layouts}
    \cup {<<Statement(rows, layout)>> : rows \in Tables(MaxCells - 1), layout \in OpenLayouts}

\* text that is no INSERT ... VALUES clause of the formatter: a comment, an
\* INSERT without a column list, the other kinds of statement
OtherTexts ==
    {<<"-","-"," ","c","\n">> (* -- c\n *),
     <<"I","N","S","E","R","T"," ","I","N","T","O"," ","t"," ","V","A","L","U","E","S"," ","(","1",")",";">> (* INSERT INTO t VALUES (1); *),
     <<"D","E","L","E","T","E"," ","F","R","O","M"," ","t"," "," ","W","H","E","R","E"," ","x",";","\n">> (* DELETE FROM t  WHERE x;\n *),
     <<"U","P","D","A","T","E"," ","t"," ","S","E","T"," ","a","=","1",",","b","b","=","2",";","\n">> (* UPDATE t SET a=1,bb=2;\n *),
     <<"S","E","L","E","C","T"," ","a",",","b"," ","F","R","O","M"," ","t",";","\n">> (* SELECT a,b FROM t;\n *),
     <<"C","R","E","A","T","E"," ","T","A","B","L","E"," ","t"," ","(","a"," ","I","N","T",",","b","b"," ","T","E","X","T",")",";","\n">> (* CREATE TABLE t (a INT,bb TEXT);\n *)}

\* the statements of a file of several: one that grows, one that shrinks,
\* one of two rows, one that keeps its length when formatted
BatchStatements ==
    {Statement(<<<<<<"1">>, <<"2","2">>>>>>, Compact),
     Statement(<<<<<<"1">>>>>>, Wide),
     Statement(<<<<<<"1">>>>, <<<<"2","2">>>>>>, SpacedRows),
     Statement(<<<<<<"1">>>>>>, Canonical)}

BatchItems == BatchStatements \cup {Other(text) : text \in OtherTexts}

RECURSIVE ItemSeqs(_)
\* the sequences of at most n batch items
ItemSeqs(n) ==
    IF n = 0 THEN {<<>>}
    ELSE {<<>>} \cup {<<item>> \o rest : item \in BatchItems, rest \in ItemSeqs(n - 1)}

Batches == ItemSeqs(MaxItems)

\* the character ` (a string cannot hold it unless a ' follows it)
Backtick == SubSeq("`'", 1, 1)

\* statements of values the tables above leave out: NULL beside a longer
\* number, strings that hold backslashes, strings in double quotes and in
\* backticks, comments between the values, a function call before a comma in a
\* statement laid out as the formatter lays it out
ProbeStatements ==
    {Statement(<<<<<<"N","U","L","L">> (* NULL *)>>, <<<<"1","2","3","4","5">>>>>>, SpacedRows),
     Statement(<<<<<<"N","U","L","L">> (* NULL *), <<"'","a","b","'">> (* 'ab' *)>>, <<<<"1","2","3","4","5">>, <<"'","c","'">>>>>>, SpacedRows),
     Statement(<<<<<<"'","a","\\","\\","'">> (* 'a\\\\' *), <<"1">>>>>>, Compact),
     Statement(<<<<<<"'","a","\\","'","b","'">> (* 'a\\'b' *), <<"1">>>>>>, Compact),
     Statement(<<<<<<"'","a","\\","\\","\\","'","b","'">> (* 'a\\\\\\'b' *), <<"1">>>>>>, Compact),
     Statement(<<<<<<"\"","a",",","b","\"">> (* "a,b" *), <<"1">>>>>>, Compact),
     Statement(<<<<<<Backtick,"a",",","b",Backtick>>, <<"1">>>>>>, Compact),
     Statement(<<<<<<"\"","i","t","'","s","\"">> (* "it's" *), <<"1">>>>>>, Compact),
     Statement(<<<<<<"'","a","\"","b","'">> (* 'a"b' *), <<"1">>>>>>, Compact),
     Statement(<<<<<<"1">>, <<"/","*"," ","a",",","b"," ","*","/"," ","2">>>>>>, Compact),
     Statement(<<<<<<"/","*"," ","("," ","*","/"," ","1">>, <<"2">>>>>>, Compact),
     Statement(<<<<<<"1"," ","/","*"," ","c"," ","*","/">>, <<"2">>>>>>, Compact),
     Statement(<<<<<<"1"," ","-","-"," ","i","t","'","s","\n">> (* 1 -- it's\n *), <<"2">>>>>>, Compact),
     Statement(<<<<<<"f","(","1",",","2",")">> (* f(1,2) *), <<"1">>>>>>, Canonical)}

Probes == {<<statement>> : statement \in ProbeStatements}

Inputs == Singles \cup Batches \cup Probes

FileText(items) == Concat([k \in 1..Len(items) |-> items[k].text])

(***************************************************************************)
(* format_file (main.rs 132-169) as a state machine.                       *)
(***************************************************************************)
VARIABLES
    input,            \* the items the file was written from (not program state)
    file,             \* the file's text on disk
    overflow_checks,  \* the build: debug (TRUE) panics on usize overflow, release wraps
    pc,               \* where format_file is
    content,          \* line 136
    formatted,        \* line 149
    skipped           \* the descriptions format_with_error_handling logged as skipped

vars == <<input, file, overflow_checks, pc, content, formatted, skipped>>

Init ==
    /\ input \in Inputs
    /\ file = FileText(input)
    /\ overflow_checks \in BOOLEAN
    /\ pc = "read"
    /\ content = <<>>
    /\ formatted = <<>>
    /\ skipped = {}

\* lines 136-149
ReadFile ==
    /\ pc = "read"
    /\ content' = file
    /\ formatted' = file
    /\ pc' = "inserts"
    /\ UNCHANGED <<input, file, overflow_checks, skipped>>

\* one line of 153-157: formatted = format_with_error_handling(formatter, &formatted, ..)
Step(at, outcome, description, next) ==
    /\ pc = at
    /\ formatted' = format_with_error_handling(outcome, formatted)
    /\ skipped' = IF outcome.panic THEN skipped \cup {description} ELSE skipped
    /\ pc' = next
    /\ UNCHANGED <<input, file, overflow_checks, content>>

\* line 153
FormatInserts ==
    Step("inserts", format_sql_inserts(formatted, overflow_checks), "INSERT statements", "creates")

\* line 154
FormatCreates ==
    Step("creates", format_sql_creates(formatted, overflow_checks), "CREATE TABLE statements", "selects")

\* line 155
FormatSelects ==
    Step("selects", format_sql_selects(formatted, overflow_checks), "SELECT statements", "updates")

\* line 156
FormatUpdates ==
    Step("updates", format_sql_updates(formatted, overflow_checks), "UPDATE statements", "deletes")

\* line 157
FormatDeletes ==
    Step("deletes", format_sql_deletes(formatted, overflow_checks), "DELETE statements", "write")

\* lines 160-168
WriteFile ==
    /\ pc = "write"
    /\ file' = IF content # formatted THEN formatted ELSE file
    /\ pc' = "done"
    /\ UNCHANGED <<input, overflow_checks, content, formatted, skipped>>

Next ==
    \/ ReadFile
    \/ FormatInserts
    \/ FormatCreates
    \/ FormatSelects
    \/ FormatUpdates
    \/ FormatDeletes
    \/ WriteFile

Spec == Init /\ [][Next]_vars

(***************************************************************************)
(* Properties of the INSERT pass.  They are read off the state reached     *)
(* when format_sql_inserts has run (pc = "creates"): content is the text   *)
(* it was given, formatted the text it left, input the rows and the layout *)
(* the text was written from.                                              *)
(***************************************************************************)
\* the file is one INSERT ... VALUES statement
IsSingle == Len(input) = 1 /\ input[1].stmt

\* the statement's rows as they were written
Written == input[1].rows

\* the statement's separator after its last row
WrittenEnd == input[1].layout.term

\* capture group 2 of the first INSERT match: the text after "VALUES ("
ValuesSection(sql) == Group(sql, InsertMatches(sql)[1], 2)

\* the numbers of values of the rows
Shape(rows) == [k \in DOMAIN rows |-> Len(rows[k])]

\* two rows have different numbers of values
Ragged(rows) == \E r1, r2 \in DOMAIN rows : Len(rows[r1]) # Len(rows[r2])

\* every string of the rows is closed
AllClosed(rows) == \A r \in DOMAIN rows : \A c \in DOMAIN rows[r] : rows[r][c] # NeverClosed

NotSpace(c) == c \notin Whitespace

\* the characters of a text that are no whitespace
NonWhitespace(s) == SelectSeq(s, NotSpace)

\* the scan of a row ended inside a string or inside a parenthesis
EndsOpen(st) == st.in_quote \/ st.in_function # 0

\* the scan of one of the rows ended open
ScanEndsOpen(rows) == \E k \in DOMAIN rows : EndsOpen(ScanRow(rows[k], 1, ScanStart))

\* a function call or an expression: the value holds both '(' and ')'
IsFunction(value) == Contains(value, <<"(">>) /\ Contains(value, <<")">>)

\* every row has as many values as the first, and every column index has a
\* function call or expression in one of the rows
EveryColumnHasFunction(rows) ==
    /\ ~Ragged(rows)
    /\ \A i \in 1..Len(rows[1]) : \E r \in DOMAIN rows : IsFunction(rows[r][i])

\* no value of the text is padded: no space follows an opening parenthesis
\* or a space, and none precedes a closing parenthesis or a comma
Unpadded(text) ==
    /\ ~Contains(text, <<"("," ">>)
    /\ ~Contains(text, <<" "," ">>)
    /\ ~Contains(text, <<" ",")">>)
    /\ ~Contains(text, <<" ",",">>)

\* the function calls and expressions of the rows are in the text as written
FunctionsKept(rows, text) ==
    \A r \in DOMAIN rows : \A c \in DOMAIN rows[r] :
        IsFunction(rows[r][c]) => Contains(text, rows[r][c])

\* every statement of the file ends with a semicolon and closes its strings
WellFormed(items) ==
    \A k \in DOMAIN items :
        items[k].stmt => (items[k].layout.term = <<";">> /\ AllClosed(items[k].rows))

\* the file holds several INSERT ... VALUES statements
Several == Cardinality({k \in DOMAIN input : input[k].stmt}) >= 2

\* an item's text when the item alone is formatted
OwnFormatted(item) ==
    IF item.stmt
    THEN FormattedInsert(item.text, InsertMatches(item.text)[1])
    ELSE item.text

\* the file with every statement replaced by its own formatted text
EachFormatted(items) == Concat([k \in DOMAIN items |-> OwnFormatted(items[k])])

\* C1: a clause with two rows of different numbers of values leaves
\* format_sql_inserts as it was written: no padding, no re-flowing, no change
\* of its terminator.
C1_RaggedClauseUnchanged ==
    (pc = "creates" /\ IsSingle /\ Ragged(Written)) => formatted = content

\* C2: when the scan of a row of the clause ends inside a string or with a
\* parenthesis open, the clause is returned as it was written.
C2_OpenClauseUnchanged ==
    (pc = "creates" /\ IsSingle /\ ScanEndsOpen(Rows(ValuesSection(content))))
        => formatted = content

\* C3: formatting a statement changes whitespace only: the characters of the
\* formatted statement that are no whitespace are those of the written one,
\* in their order, so no character of a value is added, removed or moved.
C3_OnlyWhitespaceChanges ==
    (pc = "creates" /\ IsSingle /\ WrittenEnd = <<";">>)
        => NonWhitespace(formatted) = NonWhitespace(content)

\* C4: the INSERT pass is idempotent on well-formed files: run on its own
\* output it returns that output.
C4_Idempotent ==
    (pc = "creates" /\ WellFormed(input))
        => format_with_error_handling(format_sql_inserts(formatted, overflow_checks),
                                      formatted) = formatted

\* C5: in a file of several statements every statement is replaced by its
\* own formatted text and all other text stays where it was, whether the
\* replacements are longer or shorter than what they replace.
C5_EachSpanItsOwnText ==
    (pc = "creates" /\ Several) => formatted = EachFormatted(input)

\* C6: a clause that ends with a comma or at the end of the text, not with
\* a semicolon, ends the same way when formatted: no semicolon is added.
C6_SeparatorKept ==
    (pc = "creates" /\ IsSingle /\ WrittenEnd # <<";">>)
        => (EndsWith(formatted, <<")">> \o WrittenEnd) /\ ~EndsWith(formatted, <<";">>))

\* C7: the scan finds in every row as many values as were written: a comma
\* inside a string or inside a function call splits nothing.
C7_ValuesFoundAsWritten ==
    (pc = "creates" /\ IsSingle /\ AllClosed(Written))
        => Shape(ValuesPerRow(ValuesSection(content))) = Shape(Written)

\* C8: where every column has a function call or an expression, no value of
\* the formatted clause is padded and the function calls are rendered as
\* written.
C8_FunctionColumnsUnpadded ==
    (pc = "creates" /\ IsSingle /\ "INSERT statements" \notin skipped
        /\ EveryColumnHasFunction(Written))
        => (/\ Unpadded(SubSeq(formatted, Len(HEADER) + 1, Len(formatted)))
            /\ FunctionsKept(Written, formatted))

\* C9: a text without an INSERT ... VALUES clause, the empty text too,
\* leaves format_sql_inserts as it came.
C9_NoClauseUnchanged ==
    (pc = "creates" /\ \A k \in DOMAIN input : ~input[k].stmt) => formatted = content

\* a file of several pieces, none an INSERT ... VALUES clause, one of them an
\* INSERT without a column list, has passed format_sql_inserts
C9_Witness ==
    /\ pc = "creates"
    /\ Len(input) >= 2
    /\ \A k \in DOMAIN input : ~input[k].stmt
    /\ \E k \in DOMAIN input : input[k].text = <<"I","N","S","E","R","T"," ","I","N","T","O"," ","t"," ","V","A","L","U","E","S"," ","(","1",")",";">> (* INSERT INTO t VALUES (1); *)
    /\ formatted = content

(***************************************************************************)
(* Properties of format_file's sequence of formatters.                     *)
(***************************************************************************)
Formatters == {"inserts", "creates", "selects", "updates", "deletes"}

\* the formatter that runs after the one at `at`, or the write
Successor(at) ==
    CASE at = "inserts" -> "creates"
      [] at = "creates" -> "selects"
      [] at = "selects" -> "updates"
      [] at = "updates" -> "deletes"
      [] at = "deletes" -> "write"

\* what the formatter at `at` makes of sql
Outcome(at, sql, checks) ==
    CASE at = "inserts" -> format_sql_inserts(sql, checks)
      [] at = "creates" -> format_sql_creates(sql, checks)
      [] at = "selects" -> format_sql_selects(sql, checks)
      [] at = "updates" -> format_sql_updates(sql, checks)
      [] at = "deletes" -> format_sql_deletes(sql, checks)

\* the step of a formatter with the outcome `outcome`
HandledStep(outcome) ==
    /\ pc' = Successor(pc)
    /\ IF outcome.panic
       THEN formatted' = formatted /\ skipped' # skipped
       ELSE formatted' = outcome.text /\ skipped' = skipped

\* C10: a formatter that fails leaves the text as it was given and is logged
\* as skipped, one that succeeds leaves its result; either way the next
\* formatter runs, in the order INSERT, CREATE TABLE, SELECT, UPDATE, DELETE,
\* and the file ends holding the text the last formatter left.
C10_FailureStaysLocal ==
    [][/\ (pc \in Formatters => HandledStep(Outcome(pc, formatted, overflow_checks)))
       /\ (pc' = "done" => file' = formatted)]_vars

\* the INSERT formatter failed, a later formatter changed the text, and the
\* file was written
C10_Witness ==
    /\ pc = "done"
    /\ skipped = {"INSERT statements"}
    /\ file = formatted
    /\ file # content


(***************************************************************************)
(* Properties of the rendered values (main.rs 320-356).                    *)
(***************************************************************************)
\* the statement was formatted: format_sql_inserts did not fail
Formatted == pc = "creates" /\ IsSingle /\ "INSERT statements" \notin skipped

\* a signed integer or floating-point literal
IsNumeric(value) == ParsesI64(value) \/ ParsesF64(value)

IsNull(value) == value \in {<<"N","U","L","L">> (* NULL *), <<"n","u","l","l">> (* null *), <<"N","u","l","l">> (* Null *)}

\* the value's own kind renders right-justified
RightKind(value) == IsNumeric(value) \/ IsNull(value)

\* a string literal or an opaque value: neither right-justified nor a
\* function call or expression
LeftKind(value) == ~RightKind(value) /\ ~IsFunction(value)

\* the values written at column index i
Column(rows, i) == {rows[r][i] : r \in DOMAIN rows}

\* a Numeric or Null column, a StringLiteral or Opaque column
RightColumn(rows, i) == \A value \in Column(rows, i) : RightKind(value)

LeftColumn(rows, i) == \A value \in Column(rows, i) : LeftKind(value)

\* the greatest length of a value written at column index i
WrittenWidth(rows, i) == MaxOf({Len(value) : value \in Column(rows, i)})

\* the field the value of row r at column index i is to be rendered as
Justified(rows, r, i) ==
    IF RightColumn(rows, i)
    THEN PadLeft(rows[r][i], WrittenWidth(rows, i))
    ELSE PadRight(rows[r][i], WrittenWidth(rows, i))

\* the text holds the field between the separators of a row's values
Rendered(text, field) ==
    \E before \in {<<"(">>, <<","," ">>} : \E after \in {<<")">>, <<",">>} :
        Contains(text, before \o field \o after)

\* C11: in the formatted clause every value of a column of numbers and NULLs
\* is right-justified and every value of a column of strings or opaque
\* values is left-justified, each padded with spaces to the greatest length
\* of a value written at that column index.
C11_FieldsJustified ==
    (Formatted /\ ~Ragged(Written) /\ AllClosed(Written))
        => \A i \in 1..Len(Written[1]) :
               (RightColumn(Written, i) \/ LeftColumn(Written, i))
                   => \A r \in DOMAIN Written : Rendered(formatted, Justified(Written, r, i))

(***************************************************************************)
(* Properties of the scan of a row (main.rs 263-314).                      *)
(***************************************************************************)
\* the rows the scan is given
ScannedRows == Rows(ValuesSection(content))

RECURSIVE EndsInString(_, _, _, _)
\* a scan with a one-shot flag, from character i on: the character after an
\* escaping backslash is taken literally and clears the flag, any other
\* single quote opens or closes the string; TRUE when the text ends inside
\* a string
EndsInString(text, i, open, flag) ==
    IF i > Len(text) THEN open
    ELSE IF flag THEN EndsInString(text, i + 1, open, FALSE)
    ELSE IF text[i] = "\\" THEN EndsInString(text, i + 1, open, TRUE)
    ELSE IF text[i] = "'" THEN EndsInString(text, i + 1, ~open, FALSE)
    ELSE EndsInString(text, i + 1, open, FALSE)

\* C12: the escaped flag is one-shot: the second of two consecutive
\* backslashes escapes nothing, so a quote after an even number of
\* backslashes opens or closes the string, and the scan of a row ends inside
\* a string exactly when a scan with a one-shot flag does.
C12_EscapedOneShot ==
    (pc = "creates" /\ IsSingle)
        => \A k \in DOMAIN ScannedRows :
               ScanRow(ScannedRows[k], 1, ScanStart).in_quote
                   = EndsInString(ScannedRows[k], 1, FALSE, FALSE)

\* the three quote characters
QuoteChars == {"'", "\"", Backtick}

\* the delimiter open after character c, when `open` was open before it
\* ("" for none): a quote character opens a string when none is open and
\* closes the open string only when it is the one that opened it
Delimiter(open, c) ==
    IF c \notin QuoteChars THEN open
    ELSE IF open = "" THEN c
    ELSE IF open = c THEN ""
    ELSE open

\* the nesting depth after character c outside a string
Depth(depth, c) ==
    IF c = "(" THEN depth + 1
    ELSE IF c = ")" /\ depth > 0 THEN depth - 1
    ELSE depth

RECURSIVE Separators(_, _, _, _)
\* the number of commas of the text, from character i on, that are outside
\* the strings of the three delimiters and outside parentheses
Separators(text, i, open, depth) ==
    IF i > Len(text) THEN 0
    ELSE IF open # "" THEN Separators(text, i + 1, Delimiter(open, text[i]), depth)
    ELSE IF text[i] = "," /\ depth = 0 THEN 1 + Separators(text, i + 1, open, depth)
    ELSE Separators(text, i + 1, Delimiter(open, text[i]), Depth(depth, text[i]))

\* C13: each of the three quote characters opens a string when none is open
\* and closes the string it opened; inside a string the other quote
\* characters, commas and parentheses are content, so in a statement without
\* backslashes the scan cuts a row at the commas outside the strings of the
\* three delimiters and outside parentheses, and nowhere else.
C13_ThreeDelimiters ==
    (pc = "creates" /\ IsSingle /\ WrittenEnd = <<";">> /\ ~Contains(content, <<"\\">>))
        => \A k \in DOMAIN ScannedRows :
               Len(ParseRow(ScannedRows[k])) = Separators(ScannedRows[k], 1, "", 0) + 1

RECURSIVE Skip(_, _, _)
\* the index after the first `closer` of the text at or after i, the index
\* after the text when there is none
Skip(text, i, closer) ==
    IF i > Len(text) THEN Len(text) + 1
    ELSE IF StartsWith(Slice(text, i, Len(text)), closer) THEN i + Len(closer)
    ELSE Skip(text, i + 1, closer)

\* the index after the comment that starts at i; i when none starts there
CommentAt(text, i) ==
    IF StartsWith(Slice(text, i, Len(text)), <<"/","*">>) THEN Skip(text, i + 2, <<"*","/">>)
    ELSE IF StartsWith(Slice(text, i, Len(text)), <<"-","-">>) THEN Skip(text, i + 2, <<"\n">>)
    ELSE i

\* the comments of a text that has none inside a string
Comments(text) ==
    {Slice(text, i, CommentAt(text, i) - 1) : i \in {j \in 1..Len(text) : CommentAt(text, j) > j}}

RECURSIVE SeparatorsOutsideComments(_, _, _, _)
\* the number of commas of the text, from character i on, that are outside
\* comments, outside strings in single quotes and outside parentheses, when
\* comments are skipped whole
SeparatorsOutsideComments(text, i, open, depth) ==
    IF i > Len(text) THEN 0
    ELSE IF open
    THEN SeparatorsOutsideComments(text, i + 1, text[i] # "'", depth)
    ELSE IF CommentAt(text, i) > i
    THEN SeparatorsOutsideComments(text, CommentAt(text, i), open, depth)
    ELSE IF text[i] = "," /\ depth = 0
    THEN 1 + SeparatorsOutsideComments(text, i + 1, open, depth)
    ELSE SeparatorsOutsideComments(text, i + 1, text[i] = "'", Depth(depth, text[i]))

\* C14: a comment in a VALUES clause is inert and kept as written: in a
\* statement without backslashes the scan cuts a row only at the commas
\* outside comments, strings and parentheses, with the parentheses and quotes
\* of a comment counting for nothing, and every comment of the statement is
\* in the formatted text character for character.
C14_CommentsInert ==
    (Formatted /\ WrittenEnd = <<";">> /\ ~Contains(content, <<"\\">>))
        => /\ \A k \in DOMAIN ScannedRows :
                  Len(ParseRow(ScannedRows[k]))
                      = SeparatorsOutsideComments(ScannedRows[k], 1, FALSE, 0) + 1
           /\ \A comment \in Comments(content) : Contains(formatted, comment)

(***************************************************************************)
(* Properties of the splice loop (main.rs 195-220, 393-419, 784-819).      *)
(***************************************************************************)
\* C15: in the splice loop of every formatter formatted.len() - match_len
\* never goes below zero: no replacement is shorter than the span it
\* replaces, so the subtraction overflows for no match of the text a
\* formatter is given, whatever the build.
C15_OffsetNeverBelowZero ==
    pc \in Formatters => ~Outcome(pc, formatted, TRUE).panic

(***************************************************************************)
(* Properties of the emitted rows (main.rs 237-255, 339-374).              *)
(***************************************************************************)
\* the number of characters c in the text
Count(text, c) == Cardinality({i \in DOMAIN text : text[i] = c})

\* the rows format_insert_statement emits for the statement it was given
EmittedRows == FormattedRows(ValuesPerRow(ValuesSection(content)))

\* C16: for a statement of n rows that ends with a semicolon and closes its
\* strings, a single row with a function call before a comma too,
\* format_insert_statement emits n rows, and the formatted statement has as
\* many '(' and as many ')' as the written one.
C16_RowsAndParentheses ==
    (Formatted /\ WrittenEnd = <<";">> /\ AllClosed(Written))
        => /\ Len(EmittedRows) = Len(Written)
           /\ Count(formatted, "(") = Count(content, "(")
           /\ Count(formatted, ")") = Count(content, ")")
=============================================================================
